---- MODULE Spec2Model ----
(***************************************************************************)
(* drydantic: DefaultsMergeMixin.                                          *)
(*                                                                         *)
(* Two behaviours of src/drydantic/defaults_merge_mixin.py are modelled:   *)
(*   - _merge_defaults, the "before" validator, run over an explicit heap  *)
(*     of Python objects (dicts and lists with identity), so that copies,  *)
(*     aliasing and in-place writes are visible;                           *)
(*   - __init_subclass__ and the model_json_schema wrapper it installs,    *)
(*     run over schema documents (string-keyed functions).                 *)
(***************************************************************************)
EXTENDS Integers, Sequences, FiniteSets, TLC

VARIABLES
    cls,                \* merge: the model type _merge_defaults is called on
    heap,               \* merge: the Python heap, a sequence of objects
    heap0,              \* merge: the heap as it was when the call was made
    data,               \* merge: the argument `data`
    result,             \* merge: the value returned
    pc,                 \* merge: "called" | "returned"
    model_json_schema,  \* schema: class -> the classmethod its __dict__ holds
    target,             \* schema: the (class, ref_template) being called
    history             \* schema: the documents returned for target, in order

mergeVars == <<cls, heap, heap0, data, result, pc>>
schemaVars == <<model_json_schema, target, history>>
vars == <<cls, heap, heap0, data, result, pc, model_json_schema, target, history>>

(***************************************************************************)
(* Bounds.                                                                 *)
(***************************************************************************)
\* longest list the caller passes in a defaults-bearing field
MaxLen == 2
\* most calls of model_json_schema recorded for one target
MaxCalls == 2

(***************************************************************************)
(* Generic helpers over string-keyed mappings (Python dicts by value).     *)
(***************************************************************************)
Has(d, k) == k \in DOMAIN d

Put(d, k, v) == [x \in DOMAIN d \cup {k} |-> IF x = k THEN v ELSE d[x]]

Pop(d, k) == [x \in DOMAIN d \ {k} |-> d[x]]

EmptyDict == <<>>

\* the keys of s in the fixed order `order`
KeysInOrder(order, s) == SelectSeq(order, LAMBDA k : k \in s)

(***************************************************************************)
(* The model types (classes using the mixin) and the types of their list   *)
(* elements.                                                               *)
(***************************************************************************)
NoType == "None"

SupportsDefaults(defaults_field) ==
    [kind |-> "SupportsDefaults", defaults_field |-> defaults_field, description |-> ""]

FieldInfo(description) ==
    [kind |-> "Field", defaults_field |-> "", description |-> description]

\* one declared field: its annotation list[arg] or arg, the metadata of
\* typing.Annotated (empty: a bare annotation), and whether it has no default
Decl(name, origin, arg, metadata, required) ==
    [name |-> name, origin |-> origin, arg |-> arg,
     metadata |-> metadata, required |-> required]

\* Plain has no binding; Outer is the model of the tests; Declared declares its
\* defaults field as a required field; Shared has two bindings with one
\* defaults key; Two has two bindings with a key each; Prim binds a list of
\* ints; Child and Child2 derive from Outer and add a field, a binding.  In
\* every model type the defaults keys are names of no defaults-bearing list
\* field.
Classes == {"Plain", "Outer", "Declared", "Shared", "Two", "Prim", "Child", "Child2"}

BaseModel == "BaseModel"

Base(c) == IF c \in {"Child", "Child2"} THEN "Outer" ELSE BaseModel

OwnAnnotations(c) ==
    CASE c = "Plain" ->
           << Decl("name", "", "str", <<>>, FALSE) >>
      [] c = "Outer" ->
           << Decl("inners", "list", "Inner",
                   << FieldInfo("The inner list"), SupportsDefaults("inners_defaults") >>,
                   TRUE),
              Decl("other_list", "list", "int", <<>>, FALSE),
              Decl("name", "", "str", <<>>, FALSE) >>
      [] c = "Declared" ->
           << Decl("inners", "list", "Inner",
                   << SupportsDefaults("inners_defaults") >>, FALSE),
              Decl("inners_defaults", "", "dict", <<>>, TRUE) >>
      [] c = "Shared" ->
           << Decl("xs", "list", "Inner", << SupportsDefaults("defaults") >>, TRUE),
              Decl("ys", "list", "Inner", << SupportsDefaults("defaults") >>, FALSE) >>
      [] c = "Two" ->
           << Decl("inners", "list", "Inner",
                   << SupportsDefaults("inners_defaults") >>, TRUE),
              Decl("items", "list", "Item",
                   << SupportsDefaults("items_defaults"), FieldInfo("The items") >>,
                   TRUE) >>
      [] c = "Prim" ->
           << Decl("nums", "list", "int", << SupportsDefaults("nums_defaults") >>, TRUE) >>
      [] c = "Child" ->
           << Decl("extra", "", "int", <<>>, TRUE) >>
      [] c = "Child2" ->
           << Decl("items", "list", "Item",
                   << SupportsDefaults("items_defaults") >>, TRUE) >>
      [] OTHER -> << >>

\* typing.get_type_hints(cls, include_extras=True): the annotations of the
\* bases first, then the class's own
RECURSIVE get_type_hints(_)
get_type_hints(c) ==
    IF c = BaseModel THEN << >>
    ELSE get_type_hints(Base(c)) \o OwnAnnotations(c)

\* the first SupportsDefaults among a field's metadata, as a sequence of 0 or 1
FirstMarker(metadata) ==
    LET idx == {i \in 1..Len(metadata) : metadata[i].kind = "SupportsDefaults"}
    IN IF idx = {} THEN << >>
       ELSE << metadata[CHOOSE i \in idx : \A j \in idx : i <= j] >>

RECURSIVE ExtractFrom(_)
ExtractFrom(hints) ==
    IF hints = << >> THEN << >>
    ELSE LET f == Head(hints)
             m == FirstMarker(f.metadata)
         IN (IF m = << >> THEN << >>
             ELSE << [field_name |-> f.name, defaults_field |-> m[1].defaults_field] >>)
            \o ExtractFrom(Tail(hints))

_extract_defaults_fields(c) == ExtractFrom(get_type_hints(c))

_get_inner_type_from_list_annotation(c, field_name) ==
    LET hints == get_type_hints(c)
        idx == {i \in 1..Len(hints) : hints[i].name = field_name}
    IN IF idx = {} THEN NoType
       ELSE LET f == hints[CHOOSE i \in idx : TRUE]
            IN IF f.origin = "list" THEN f.arg ELSE NoType

(***************************************************************************)
(* The Python heap.  A value is an immutable int or a reference to a       *)
(* mutable object; an object is a dict (key -> value) or a list of values. *)
(***************************************************************************)
IntVal(n) == [tag |-> "int", v |-> n]

RefVal(a) == [tag |-> "ref", v |-> a]

NoneVal == [tag |-> "none", v |-> 0]

DictObj(m) == [kind |-> "dict", map |-> m, elems |-> << >>]

ListObj(s) == [kind |-> "list", map |-> EmptyDict, elems |-> s]

\* isinstance(v, dict), isinstance(v, list)
IsDict(h, v) == v.tag = "ref" /\ h[v.v].kind = "dict"

IsList(h, v) == v.tag = "ref" /\ h[v.v].kind = "list"

\* a new object: the heap with it, and the reference to it
Alloc(h, obj) == [h |-> Append(h, obj), v |-> RefVal(Len(h) + 1)]

\* d[k] = v, d.pop(k, None), l.append(v): writes to the object at address a
SetItem(h, a, k, v) == [h EXCEPT ![a].map = Put(@, k, v)]

PopItem(h, a, k) == [h EXCEPT ![a].map = Pop(@, k)]

ListAppend(h, a, v) == [h EXCEPT ![a].elems = Append(@, v)]

\* the order in which the keys of a dict are visited
KeyOrder ==
    << "a", "b", "c", "name", "inners", "inners_defaults", "items",
       "items_defaults", "xs", "ys", "defaults", "nums", "nums_defaults" >>

\* dict.update: every item of the dict at src is written into the dict at dst
RECURSIVE UpdateKeys(_, _, _, _)
UpdateKeys(h, dst, src, ks) ==
    IF ks = << >> THEN h
    ELSE UpdateKeys(SetItem(h, dst, Head(ks), h[src].map[Head(ks)]), dst, src, Tail(ks))

DictUpdate(h, dst, src) ==
    UpdateKeys(h, dst, src, KeysInOrder(KeyOrder, DOMAIN h[src].map))

\* mutant of DictCopy: result_data = data, the caller's own mapping
DictCopy_Alias(h, v) == [h |-> h, v |-> v]

\* dict(data): a new dict holding the same values (a shallow copy)
DictCopy(h, v) == Alloc(h, DictObj(h[v.v].map))

\* copy.deepcopy(v): st = [h, memo, v]; memo maps an object already copied to
\* its copy, as the memo of copy.deepcopy does.  An int is returned as it is.
RECURSIVE DeepCopyMemo(_, _, _), DeepCopyDictItems(_, _, _, _, _), DeepCopyListItems(_, _, _, _, _)
DeepCopyMemo(h, memo, v) ==
    IF v.tag # "ref" THEN [h |-> h, memo |-> memo, v |-> v]
    ELSE IF v.v \in DOMAIN memo THEN [h |-> h, memo |-> memo, v |-> RefVal(memo[v.v])]
    ELSE IF h[v.v].kind = "dict"
         THEN LET y == Alloc(h, DictObj(EmptyDict))
                  st == DeepCopyDictItems(y.h, (v.v :> y.v.v) @@ memo, v.v, y.v.v,
                                          KeysInOrder(KeyOrder, DOMAIN h[v.v].map))
              IN [h |-> st.h, memo |-> st.memo, v |-> y.v]
         ELSE LET y == Alloc(h, ListObj(<< >>))
                  st == DeepCopyListItems(y.h, (v.v :> y.v.v) @@ memo, v.v, y.v.v, 1)
              IN [h |-> st.h, memo |-> st.memo, v |-> y.v]

DeepCopyDictItems(h, memo, src, dst, ks) ==
    IF ks = << >> THEN [h |-> h, memo |-> memo]
    ELSE LET r == DeepCopyMemo(h, memo, h[src].map[Head(ks)])
         IN DeepCopyDictItems(SetItem(r.h, dst, Head(ks), r.v), r.memo, src, dst, Tail(ks))

DeepCopyListItems(h, memo, src, dst, i) ==
    IF i > Len(h[src].elems) THEN [h |-> h, memo |-> memo]
    ELSE LET r == DeepCopyMemo(h, memo, h[src].elems[i])
         IN DeepCopyListItems(ListAppend(r.h, dst, r.v), r.memo, src, dst, i + 1)

\* mutant of deepcopy: defaults_data.copy(), a shallow copy
deepcopy_Shallow(h, v) == Alloc(h, DictObj(h[v.v].map))

deepcopy(h, v) ==
    LET r == DeepCopyMemo(h, EmptyDict, v) IN [h |-> r.h, v |-> r.v]

(***************************************************************************)
(* DefaultsMergeMixin._merge_defaults                                      *)
(***************************************************************************)
\* for item in field_data: ... merged_items.append(...)
RECURSIVE MergeItems(_, _, _, _, _), MergeItems_DropNonDict(_, _, _, _, _)

\* mutant of MergeItems: an item that is no dict is not appended
MergeItems_DropNonDict(h, field_data, defaults_data, merged_items, i) ==
    IF i > Len(h[field_data.v].elems) THEN h
    ELSE LET item == h[field_data.v].elems[i]
         IN IF IsDict(h, item)
            THEN LET merged_item == deepcopy(h, defaults_data)
                     h2 == DictUpdate(merged_item.h, merged_item.v.v, item.v)
                 IN MergeItems_DropNonDict(ListAppend(h2, merged_items.v, merged_item.v),
                                           field_data, defaults_data, merged_items, i + 1)
            ELSE MergeItems_DropNonDict(h, field_data, defaults_data, merged_items, i + 1)

MergeItems(h, field_data, defaults_data, merged_items, i) ==
    IF i > Len(h[field_data.v].elems) THEN h
    ELSE LET item == h[field_data.v].elems[i]
         IN IF IsDict(h, item)
            THEN LET merged_item == deepcopy(h, defaults_data)
                     h2 == DictUpdate(merged_item.h, merged_item.v.v, item.v)
                 IN MergeItems(ListAppend(h2, merged_items.v, merged_item.v),
                               field_data, defaults_data, merged_items, i + 1)
            ELSE MergeItems(ListAppend(h, merged_items.v, item),
                            field_data, defaults_data, merged_items, i + 1)

\* the body of `for field_name, supports_defaults_info in defaults_fields`
MergeOneField(h, result_data, field_name, defaults_key) ==
    LET rd == h[result_data.v].map
    IN IF Has(rd, field_name) /\ Has(rd, defaults_key)
       THEN LET field_data == rd[field_name]
                defaults_data == rd[defaults_key]
                h2 == IF IsList(h, field_data) /\ IsDict(h, defaults_data)
                      THEN LET merged_items == Alloc(h, ListObj(<< >>))
                               h1 == MergeItems(merged_items.h, field_data,
                                                defaults_data, merged_items.v, 1)
                           IN SetItem(h1, result_data.v, field_name, merged_items.v)
                      ELSE h
            IN PopItem(h2, result_data.v, defaults_key)
       ELSE h

RECURSIVE MergeFields(_, _, _)
MergeFields(h, result_data, defaults_fields) ==
    IF defaults_fields = << >> THEN h
    ELSE MergeFields(MergeOneField(h, result_data, Head(defaults_fields).field_name,
                                   Head(defaults_fields).defaults_field),
                     result_data, Tail(defaults_fields))

\* the whole validator: the heap after the call and the value returned
_merge_defaults(h, c, d) ==
    IF ~IsDict(h, d) THEN [h |-> h, v |-> d]
    ELSE LET defaults_fields == _extract_defaults_fields(c)
         IN IF defaults_fields = << >> THEN [h |-> h, v |-> d]
            ELSE LET result_data == DictCopy(h, d)
                 IN [h |-> MergeFields(result_data.h, result_data.v, defaults_fields),
                     v |-> result_data.v]

(***************************************************************************)
(* The caller's input: the mapping handed to the validator.            *)
(***************************************************************************)
FieldKeys(c) ==
    {_extract_defaults_fields(c)[i].field_name : i \in 1..Len(_extract_defaults_fields(c))}

DefaultsKeys(c) ==
    {_extract_defaults_fields(c)[i].defaults_field : i \in 1..Len(_extract_defaults_fields(c))}

\* a list element: 7, {"a": 1}, or {"a": 2, "b": shared} where shared is one
\* list object the caller puts into every such element
ElemShapes == {"int", "plain", "nested"}

ListShapes == UNION {[1..n -> ElemShapes] : n \in 0..MaxLen}

FieldShapes ==
    {[kind |-> "absent", elems |-> << >>], [kind |-> "int", elems |-> << >>]}
    \cup {[kind |-> "list", elems |-> l] : l \in ListShapes}

\* the defaults value: absent, 3, {"b": 9, "c": [8]}, or {"b": 9, "c": shared}
DefaultsShapes == {"absent", "int", "dict", "dictshared"}

\* the caller's shared list, the first object of the heap
SharedRef == RefVal(1)

BuildElem(h, shape) ==
    CASE shape = "int" -> [h |-> h, v |-> IntVal(7)]
      [] shape = "plain" -> Alloc(h, DictObj("a" :> IntVal(1)))
      [] OTHER -> Alloc(h, DictObj(("a" :> IntVal(2)) @@ ("b" :> SharedRef)))

RECURSIVE BuildElems(_, _, _)
BuildElems(h, shapes, acc) ==
    IF shapes = << >> THEN [h |-> h, vs |-> acc]
    ELSE LET e == BuildElem(h, Head(shapes))
         IN BuildElems(e.h, Tail(shapes), Append(acc, e.v))

BuildField(h, shape) ==
    IF shape.kind = "int" THEN [h |-> h, v |-> IntVal(4)]
    ELSE LET es == BuildElems(h, shape.elems, << >>)
         IN Alloc(es.h, ListObj(es.vs))

BuildDefaults(h, shape) ==
    IF shape = "int" THEN [h |-> h, v |-> IntVal(3)]
    ELSE IF shape = "dictshared"
    THEN Alloc(h, DictObj(("b" :> IntVal(9)) @@ ("c" :> SharedRef)))
    ELSE LET nested == Alloc(h, ListObj(<< IntVal(8) >>))
         IN Alloc(nested.h, DictObj(("b" :> IntVal(9)) @@ ("c" :> nested.v)))

\* the values of the keys ks, built in order: [h, map]
RECURSIVE BuildItems(_, _, _, _, _)
BuildItems(h, map, ks, fields, defaults) ==
    IF ks = << >> THEN [h |-> h, map |-> map]
    ELSE LET k == Head(ks)
             absent == IF k \in DOMAIN fields THEN fields[k].kind = "absent"
                       ELSE defaults[k] = "absent"
             b == IF k \in DOMAIN fields THEN BuildField(h, fields[k])
                  ELSE BuildDefaults(h, defaults[k])
         IN IF absent THEN BuildItems(h, map, Tail(ks), fields, defaults)
            ELSE BuildItems(b.h, Put(map, k, b.v), Tail(ks), fields, defaults)

\* the heap and the mapping of a call whose list fields and defaults keys have
\* the given shapes; "name" is a key no binding mentions
BuildRecord(fields, defaults) ==
    LET h0 == << ListObj(<< IntVal(5) >>) >>
        items == BuildItems(h0, "name" :> IntVal(0),
                            KeysInOrder(KeyOrder, DOMAIN fields \cup DOMAIN defaults),
                            fields, defaults)
    IN Alloc(items.h, DictObj(items.map))

\* a call with an input that is no mapping
BuildScalar == [h |-> << ListObj(<< IntVal(5) >>) >>, v |-> IntVal(7)]

Inputs(c) ==
    {BuildScalar}
    \cup {BuildRecord(f, d) : f \in [FieldKeys(c) -> FieldShapes],
                              d \in [DefaultsKeys(c) -> DefaultsShapes]}

(***************************************************************************)
(* The validator as a state machine: a call is made, the validator runs.   *)
(***************************************************************************)
SchemaIdle ==
    /\ model_json_schema = EmptyDict
    /\ target = << >>
    /\ history = << >>

InitMerge ==
    /\ cls \in Classes
    /\ \E input \in Inputs(cls) :
          /\ heap = input.h
          /\ heap0 = input.h
          /\ data = input.v
    /\ result = NoneVal
    /\ pc = "called"
    /\ SchemaIdle

CallMergeDefaults ==
    /\ pc = "called"
    /\ LET r == _merge_defaults(heap, cls, data)
       IN /\ heap' = r.h
          /\ result' = r.v
    /\ pc' = "returned"
    /\ UNCHANGED <<cls, heap0, data, model_json_schema, target, history>>

NextMerge == CallMergeDefaults

SpecMerge == InitMerge /\ [][NextMerge]_vars

(***************************************************************************)
(* Vocabulary of the properties of _merge_defaults.                        *)
(***************************************************************************)
Returned == pc = "returned"

Bindings == _extract_defaults_fields(cls)

BindingIdx == 1..Len(Bindings)

\* the caller's mapping as it was at the call, and the mapping returned
In == heap0[data.v].map

Out == heap[result.v].map

\* the value of v in heap h, by value: what Python's == compares
RECURSIVE DeepVal(_, _)
DeepVal(h, v) ==
    IF v.tag # "ref" THEN [tag |-> v.tag, n |-> v.v, map |-> EmptyDict, elems |-> << >>]
    ELSE [tag |-> h[v.v].kind, n |-> 0,
          map |-> [k \in DOMAIN h[v.v].map |-> DeepVal(h, h[v.v].map[k])],
          elems |-> [i \in 1..Len(h[v.v].elems) |-> DeepVal(h, h[v.v].elems[i])]]

\* defaults overlaid with element, both by value: element keys win
Overlay(defaults, element) ==
    [defaults EXCEPT !.map =
        [k \in DOMAIN defaults.map \cup DOMAIN element.map |->
            IF k \in DOMAIN element.map THEN element.map[k] ELSE defaults.map[k]]]

\* the objects reachable from v in heap h
RECURSIVE Reach(_, _)
Reach(h, v) ==
    IF v.tag # "ref" THEN {}
    ELSE {v.v}
         \cup UNION {Reach(h, h[v.v].map[k]) : k \in DOMAIN h[v.v].map}
         \cup UNION {Reach(h, h[v.v].elems[i]) : i \in 1..Len(h[v.v].elems)}

\* the objects reachable from the values the dict v holds (v itself left out)
ReachItems(h, v) == UNION {Reach(h, h[v.v].map[k]) : k \in DOMAIN h[v.v].map}

\* the input of binding i has the shape the merge is for
Mergeable(i) ==
    /\ IsDict(heap0, data)
    /\ Has(In, Bindings[i].field_name)
    /\ Has(In, Bindings[i].defaults_field)
    /\ IsList(heap0, In[Bindings[i].field_name])
    /\ IsDict(heap0, In[Bindings[i].defaults_field])

InElems(i) == heap0[In[Bindings[i].field_name].v].elems

OutElems(i) == heap[Out[Bindings[i].field_name].v].elems

\* the call replaced the list of binding i by a list of merged elements
Merged(i) ==
    /\ Returned
    /\ Mergeable(i)
    /\ result # data
    /\ Has(Out, Bindings[i].field_name)
    /\ Out[Bindings[i].field_name] # In[Bindings[i].field_name]
    /\ IsList(heap, Out[Bindings[i].field_name])
    /\ Len(OutElems(i)) = Len(InElems(i))

\* C1: for every binding whose field holds a list of mappings and whose
\* defaults key holds a mapping, every output element equals the defaults
\* overlaid with the input element at the same index, and the output
\* record has no defaults key.
C1_MergeOverlay ==
    Returned =>
        \A i \in BindingIdx :
            (/\ Mergeable(i)
             /\ \A n \in 1..Len(InElems(i)) : IsDict(heap0, InElems(i)[n]))
            => /\ IsDict(heap, result)
               /\ Has(Out, Bindings[i].field_name)
               /\ IsList(heap, Out[Bindings[i].field_name])
               /\ Len(OutElems(i)) = Len(InElems(i))
               /\ \A n \in 1..Len(InElems(i)) :
                     DeepVal(heap, OutElems(i)[n])
                       = Overlay(DeepVal(heap0, In[Bindings[i].defaults_field]),
                                 DeepVal(heap0, InElems(i)[n]))
               /\ ~Has(Out, Bindings[i].defaults_field)

\* C2: the record returned never contains a binding's defaults key, whether
\* or not a merge took place.
C2_DefaultsKeyStripped ==
    (Returned /\ IsDict(heap, result)) =>
        \A i \in BindingIdx : ~Has(Out, Bindings[i].defaults_field)

\* C3: after the call every object the caller owned is as it was; the
\* validator wrote only to objects it allocated.
C3_CallerUnchanged ==
    Returned =>
        /\ Len(heap) >= Len(heap0)
        /\ \A a \in 1..Len(heap0) : heap[a] = heap0[a]

\* a merge took place and the defaults key was removed from the result, while
\* the caller's mapping still holds it
C3_Witness ==
    /\ Returned
    /\ \E i \in BindingIdx :
          /\ Merged(i)
          /\ Len(InElems(i)) = 2
          /\ \A n \in 1..2 : IsDict(heap0, InElems(i)[n])
          /\ ~Has(Out, Bindings[i].defaults_field)
          /\ Has(heap[data.v].map, Bindings[i].defaults_field)

\* what merged element n of binding i holds beyond what input element n
\* brought along: the merged mapping itself and what it took from the defaults
Own(i, n) == Reach(heap, OutElems(i)[n]) \ ReachItems(heap0, InElems(i)[n])

\* C4 as claimed: two merged elements are distinct objects that share no
\* mutable object with each other or with the caller's defaults object.
C4_NoSharedStructure ==
    \A i \in BindingIdx :
        Merged(i) =>
            \A n, m \in 1..Len(InElems(i)) :
                (n # m /\ IsDict(heap0, InElems(i)[n]) /\ IsDict(heap0, InElems(i)[m]))
                => /\ OutElems(i)[n] # OutElems(i)[m]
                   /\ Reach(heap, OutElems(i)[n]) \cap Reach(heap, OutElems(i)[m]) = {}
                   /\ Reach(heap, OutElems(i)[n])
                        \cap Reach(heap0, In[Bindings[i].defaults_field]) = {}

\* C4 amended: a merged element is a fresh object, and what it took from the
\* defaults is a copy of its own, shared with no other merged element and not
\* with the caller's defaults; what two merged elements share is reachable
\* from the values of the caller's input elements at the same indices.
C4_DefaultsCopiedPerElement ==
    \A i \in BindingIdx :
        Merged(i) =>
            \A n \in 1..Len(InElems(i)) :
                IsDict(heap0, InElems(i)[n])
                => /\ OutElems(i)[n].tag = "ref"
                   /\ \A a \in Own(i, n) : a > Len(heap0)
                   /\ Own(i, n) \cap Reach(heap0, In[Bindings[i].defaults_field]) = {}
                   /\ \A m \in 1..Len(InElems(i)) :
                         (m # n /\ IsDict(heap0, InElems(i)[m]))
                         => /\ OutElems(i)[n] # OutElems(i)[m]
                            /\ Own(i, n) \cap Reach(heap, OutElems(i)[m]) = {}
                            /\ Reach(heap, OutElems(i)[n]) \cap Reach(heap, OutElems(i)[m])
                                 \subseteq ReachItems(heap0, InElems(i)[n])
                                           \cap ReachItems(heap0, InElems(i)[m])

\* two merged elements whose input elements hold the caller's shared list,
\* merged with defaults that hold a nested list
C4_Witness ==
    \E i \in BindingIdx :
        /\ Merged(i)
        /\ Len(InElems(i)) = 2
        /\ \A n \in 1..2 : IsDict(heap0, InElems(i)[n])
        /\ SharedRef.v \in ReachItems(heap0, InElems(i)[1]) \cap ReachItems(heap0, InElems(i)[2])
        /\ \E a \in Reach(heap0, In[Bindings[i].defaults_field]) :
              a # SharedRef.v /\ heap0[a].kind = "list"
        /\ Cardinality(Own(i, 1)) = 2

\* binding i's input has not the shape the merge is for
Mismatched(i) ==
    \/ ~Has(In, Bindings[i].defaults_field)
    \/ ~IsDict(heap0, In[Bindings[i].defaults_field])
    \/ (Has(In, Bindings[i].field_name) /\ ~IsList(heap0, In[Bindings[i].field_name]))

PutIn(d, k1, k2, v) == Put(d, k1, Put(d[k1], k2, v))

InSeq(x, seq) == \E i \in 1..Len(seq) : seq[i] = x

\* list.remove(x): the first occurrence is removed
RemoveFirst(seq, x) ==
    LET first == CHOOSE i \in 1..Len(seq) : seq[i] = x /\ \A j \in 1..(i - 1) : seq[j] # x
    IN [j \in 1..(Len(seq) - 1) |-> IF j < first THEN seq[j] ELSE seq[j + 1]]

\* name.replace("_", " ").title(), on the names the model types use
TitleCase(name) ==
    CASE name = "inners" -> "Inners"
      [] name = "inners_defaults" -> "Inners Defaults"
      [] name = "other_list" -> "Other List"
      [] name = "name" -> "Name"
      [] name = "xs" -> "Xs"
      [] name = "ys" -> "Ys"
      [] name = "defaults" -> "Defaults"
      [] name = "items" -> "Items"
      [] name = "items_defaults" -> "Items Defaults"
      [] name = "nums" -> "Nums"
      [] name = "nums_defaults" -> "Nums Defaults"
      [] name = "extra" -> "Extra"
      [] name = "a" -> "A"
      [] name = "b" -> "B"
      [] name = "c" -> "C"
      [] name = "leaf" -> "Leaf"
      [] name = "n" -> "N"
      [] name = "x" -> "X"
      [] OTHER -> name

\* f"{a} {b}".strip(), for a and b without outer blanks
JoinStripped(a, b) ==
    IF a = "" THEN b ELSE IF b = "" THEN a ELSE a \o " " \o b

\* a ref_template is written as its text before "{model}"
DefaultRefTemplate == "#/$defs/"

RefTemplates == {DefaultRefTemplate, "#/components/schemas/"}

\* ref_template.format(model=name)
Format(ref_template, name) == ref_template \o name

RefTo(ref) == "$ref" :> ref

NullType == "type" :> "null"

(***************************************************************************)
(* The validation engine's schema generator (the baseline the mixin        *)
(* patches): BaseModel.model_json_schema of a model type.                  *)
(***************************************************************************)
\* the element types that are models themselves
InnerModels == {"Inner", "Item", "Leaf"}

\* hasattr(inner_type, "model_json_schema")
HasSchema(t) == t \in InnerModels

InnerAnnotations(t) ==
    CASE t = "Inner" ->
           << Decl("a", "", "int", <<>>, TRUE),
              Decl("b", "", "int", <<>>, TRUE),
              Decl("c", "", "str", <<>>, FALSE) >>
      [] t = "Item" ->
           << Decl("leaf", "", "Leaf", <<>>, TRUE),
              Decl("n", "", "int", <<>>, FALSE) >>
      [] t = "Leaf" ->
           << Decl("x", "", "int", <<>>, TRUE) >>
      [] OTHER -> << >>

\* the class docstring, "" when there is none
DocString(t) == IF t = "Inner" THEN "Test list item class" ELSE ""

JsonType(arg) ==
    CASE arg = "int" -> "integer"
      [] arg = "str" -> "string"
      [] OTHER -> "object"

\* the schema of one value of type arg
TypeSchema(arg, ref_template) ==
    IF HasSchema(arg) THEN RefTo(Format(ref_template, arg))
    ELSE IF arg = "dict" THEN ("type" :> "object") @@ ("additionalProperties" :> TRUE)
    ELSE "type" :> JsonType(arg)

FieldDescription(metadata) ==
    LET idx == {i \in 1..Len(metadata) : metadata[i].kind = "Field"}
    IN IF idx = {} THEN ""
       ELSE metadata[CHOOSE i \in idx : \A j \in idx : i <= j].description

\* the property entry of one declared field
FieldSchema(f, ref_template) ==
    LET shape == IF f.origin = "list"
                 THEN ("type" :> "array") @@ ("items" :> TypeSchema(f.arg, ref_template))
                 ELSE TypeSchema(f.arg, ref_template)
        titled == Put(shape, "title", TitleCase(f.name))
        described == IF FieldDescription(f.metadata) = "" THEN titled
                     ELSE Put(titled, "description", FieldDescription(f.metadata))
    IN IF f.required THEN described ELSE Put(described, "default", "unset")

RequiredOf(fields) == SelectSeq([i \in 1..Len(fields) |-> fields[i].name],
                                LAMBDA n : \E i \in 1..Len(fields) :
                                              fields[i].name = n /\ fields[i].required)

\* the model types a sequence of fields refers to, directly
DirectRefs(fields) ==
    {fields[i].arg : i \in {j \in 1..Len(fields) : HasSchema(fields[j].arg)}}

\* ... and through the fields of those types (the tables nest two deep)
AllRefs(fields) ==
    DirectRefs(fields)
    \cup UNION {DirectRefs(InnerAnnotations(t)) : t \in DirectRefs(fields)}

\* the schema of a model with the given fields, without its definitions
ObjectSchema(title, doc, fields, ref_template) ==
    LET base == ("title" :> title) @@ ("type" :> "object")
                @@ ("properties" :>
                      [n \in {fields[i].name : i \in 1..Len(fields)} |->
                          FieldSchema(fields[CHOOSE i \in 1..Len(fields) : fields[i].name = n],
                                      ref_template)])
        req == IF RequiredOf(fields) = << >> THEN base
               ELSE Put(base, "required", RequiredOf(fields))
    IN IF doc = "" THEN req ELSE Put(req, "description", doc)

WithDefs(schema, fields, ref_template) ==
    IF AllRefs(fields) = {} THEN schema
    ELSE Put(schema, "$defs",
             [t \in AllRefs(fields) |->
                 ObjectSchema(t, DocString(t), InnerAnnotations(t), ref_template)])

\* inner_type.model_json_schema(by_alias=..., ref_template=...)
InnerModelJsonSchema(t, ref_template) ==
    WithDefs(ObjectSchema(t, DocString(t), InnerAnnotations(t), ref_template),
             InnerAnnotations(t), ref_template)

\* BaseModel.model_json_schema bound to class c
BaseModelJsonSchema(c, ref_template) ==
    WithDefs(ObjectSchema(c, "", get_type_hints(c), ref_template),
             get_type_hints(c), ref_template)

(***************************************************************************)
(* custom_model_json_schema: the patch of one binding, and the wrapper.    *)
(***************************************************************************)
PartialName(inner_type) == "Partial" \o inner_type

\* mutant of PartialSchema: the properties are dropped with the required list
PartialSchema_DropsProperties(inner_schema, inner_type) ==
    Put(Put(Pop(Pop(inner_schema, "required"), "properties"),
            "title", PartialName(inner_type)),
        "description",
        "Partial " \o inner_type \o " - fields will be merged with defaults. "
          \o "After merging, the result must satisfy the full "
          \o inner_type \o " schema.")

\* partial_schema: a copy of inner_schema without "required", retitled
PartialSchema(inner_schema, inner_type) ==
    Put(Put(Pop(inner_schema, "required"), "title", PartialName(inner_type)),
        "description",
        "Partial " \o inner_type \o " - fields will be merged with defaults. "
          \o "After merging, the result must satisfy the full "
          \o inner_type \o " schema.")

\* the defaults property written when the schema has none
GenericDefaultsProperty(field_name, defaults_key) ==
    ("anyOf" :> << ("type" :> "object") @@ ("additionalProperties" :> TRUE), NullType >>)
    @@ ("default" :> "None")
    @@ ("title" :> TitleCase(defaults_key))
    @@ ("description" :> "Default values to merge with each item in " \o field_name)

\* the defaults property that refers to the partial schema
PartialDefaultsProperty(field_name, defaults_key, inner_type) ==
    ("anyOf" :> << RefTo("#/$defs/Partial" \o inner_type), NullType >>)
    @@ ("default" :> "None")
    @@ ("description" :>
          "Default values to merge with each item in " \o field_name
            \o ". After merging with list items, results must satisfy the full "
            \o inner_type \o " schema.")
    @@ ("title" :> TitleCase(defaults_key))

MergeDesc(defaults_key, inner_type) ==
    "Each item is merged with " \o defaults_key \o " before validation. "
      \o "Individual items can be partial, but after merging must satisfy the full "
      \o inner_type \o " schema."

PartialItems(inner_type) ==
    ("anyOf" :> << RefTo("#/$defs/Partial" \o inner_type),
                   RefTo("#/$defs/" \o inner_type) >>)
    @@ ("description" :>
          "Partial or complete " \o inner_type
            \o " item. Will be merged with defaults before validation.")

\* the list field's property: the note appended, the items rewritten
PatchListProperty(prop, defaults_key, inner_type) ==
    LET original_desc == IF Has(prop, "description") THEN prop["description"] ELSE ""
        noted == Put(prop, "description",
                     JoinStripped(original_desc, MergeDesc(defaults_key, inner_type)))
    IN IF Has(noted, "items") THEN Put(noted, "items", PartialItems(inner_type))
       ELSE noted

\* the body of `for field_name, supports_defaults_info in defaults_fields`
PatchBinding(schema, cls_inner, field_name, defaults_key, ref_template) ==
    LET inner_type == _get_inner_type_from_list_annotation(cls_inner, field_name)
        s1 == IF ~Has(schema, "properties") THEN Put(schema, "properties", EmptyDict)
              ELSE schema
        s2 == IF ~Has(s1["properties"], defaults_key)
              THEN PutIn(s1, "properties", defaults_key,
                         GenericDefaultsProperty(field_name, defaults_key))
              ELSE s1
        s3 == IF Has(s2, "required") /\ InSeq(defaults_key, s2["required"])
              THEN Put(s2, "required", RemoveFirst(s2["required"], defaults_key))
              ELSE s2
    IN IF inner_type # NoType /\ HasSchema(inner_type)
       THEN LET inner_schema == InnerModelJsonSchema(inner_type, ref_template)
                partial_schema == PartialSchema(inner_schema, inner_type)
                s4 == IF ~Has(s3, "$defs") THEN Put(s3, "$defs", EmptyDict) ELSE s3
                s5 == PutIn(s4, "$defs", PartialName(inner_type), partial_schema)
                s6 == PutIn(s5, "properties", defaults_key,
                            PartialDefaultsProperty(field_name, defaults_key, inner_type))
            IN IF Has(s6["properties"], field_name)
               THEN PutIn(s6, "properties", field_name,
                          PatchListProperty(s6["properties"][field_name],
                                            defaults_key, inner_type))
               ELSE s6
       ELSE s3

RECURSIVE PatchBindings(_, _, _, _)
PatchBindings(schema, cls_inner, defaults_fields, ref_template) ==
    IF defaults_fields = << >> THEN schema
    ELSE PatchBindings(PatchBinding(schema, cls_inner, Head(defaults_fields).field_name,
                                    Head(defaults_fields).defaults_field, ref_template),
                       cls_inner, Tail(defaults_fields), ref_template)

\* cls.model_json_schema as attribute lookup finds it: the class along the
\* bases of c whose __dict__ holds the method (BaseModel when none does)
RECURSIVE Lookup(_, _)
Lookup(methods, c) ==
    IF c = BaseModel \/ c \in DOMAIN methods THEN c
    ELSE Lookup(methods, Base(c))

\* mutant of custom_model_json_schema: the schema patched is the one the last
\* call returned, kept from call to call, once there is one
RECURSIVE custom_model_json_schema(_, _, _, _), custom_model_json_schema_Cached(_, _, _, _)
custom_model_json_schema_Cached(methods, owner, cls_inner, ref_template) ==
    IF owner = BaseModel THEN BaseModelJsonSchema(cls_inner, ref_template)
    ELSE LET schema ==
                 IF history # << >> THEN history[Len(history)]
                 ELSE custom_model_json_schema_Cached(methods, methods[owner].original_func,
                                                      methods[owner].original_cls,
                                                      ref_template)
         IN PatchBindings(schema, cls_inner, _extract_defaults_fields(cls_inner),
                          ref_template)

\* the method class `owner` holds, called with cls_inner: the schema of the
\* captured original_schema_method (bound to the class that captured it),
\* patched for the bindings of cls_inner.  BaseModel's method is the engine's.
custom_model_json_schema(methods, owner, cls_inner, ref_template) ==
    IF owner = BaseModel THEN BaseModelJsonSchema(cls_inner, ref_template)
    ELSE LET schema == custom_model_json_schema(methods, methods[owner].original_func,
                                                methods[owner].original_cls, ref_template)
         IN PatchBindings(schema, cls_inner, _extract_defaults_fields(cls_inner),
                          ref_template)

(***************************************************************************)
(* Class definition and schema calls as a state machine.                   *)
(***************************************************************************)
MergeIdle ==
    /\ cls = "Plain"
    /\ heap = << >>
    /\ heap0 = << >>
    /\ data = NoneVal
    /\ result = NoneVal
    /\ pc = "idle"

InitSchema ==
    /\ MergeIdle
    /\ model_json_schema = EmptyDict
    /\ target = << >>
    /\ history = << >>

\* class c(...) is defined: __init_subclass__ captures cls.model_json_schema
\* and replaces the method on the class
InitSubclass(c) ==
    /\ c \notin DOMAIN model_json_schema
    /\ Base(c) = BaseModel \/ Base(c) \in DOMAIN model_json_schema
    /\ model_json_schema' =
          Put(model_json_schema, c,
              [original_func |-> Lookup(model_json_schema, c), original_cls |-> c])
    /\ UNCHANGED <<cls, heap, heap0, data, result, pc, target, history>>

\* c.model_json_schema(ref_template=...)
ModelJsonSchema(c, ref_template) ==
    /\ c \in DOMAIN model_json_schema
    /\ Len(history) < MaxCalls
    /\ target = << >> \/ target = << c, ref_template >>
    /\ target' = << c, ref_template >>
    /\ history' = Append(history,
                         custom_model_json_schema(model_json_schema,
                                                  Lookup(model_json_schema, c),
                                                  c, ref_template))
    /\ UNCHANGED <<cls, heap, heap0, data, result, pc, model_json_schema>>

NextSchema ==
    \/ \E c \in Classes : InitSubclass(c)
    \/ \E c \in Classes, ref_template \in RefTemplates : ModelJsonSchema(c, ref_template)

SpecSchema == InitSchema /\ [][NextSchema]_vars

(***************************************************************************)
(* Vocabulary of the properties of the patched schema.                     *)
(***************************************************************************)
Called == history # << >>

\* the document the last call returned, and the call's arguments
Doc == history[Len(history)]

TargetCls == target[1]

TargetTemplate == target[2]

TargetBindings == _extract_defaults_fields(TargetCls)

InnerOf(i) ==
    _get_inner_type_from_list_annotation(TargetCls, TargetBindings[i].field_name)

\* the bindings whose list field has an element type with its own schema
SchemaBindingIdx ==
    {i \in 1..Len(TargetBindings) : InnerOf(i) # NoType /\ HasSchema(InnerOf(i))}

DeclaredFields(c) == {get_type_hints(c)[i].name : i \in 1..Len(get_type_hints(c))}

DeclaredRequired(c, field_name) ==
    \E i \in 1..Len(get_type_hints(c)) :
        get_type_hints(c)[i].name = field_name /\ get_type_hints(c)[i].required

DocRequires(doc, field_name) == Has(doc, "required") /\ InSeq(field_name, doc["required"])

DocDefs(doc) == IF Has(doc, "$defs") THEN doc["$defs"] ELSE EmptyDict

\* C6: for every binding whose element type has a schema, the document has a
\* Partial<Inner> definition without a required list, a defaults property
\* that is anyOf [partial, null] and is not required, the list field with
\* its own required status, and items that are anyOf [partial, full].
C6_SchemaScenario ==
    Called =>
        \A i \in SchemaBindingIdx :
            LET f == TargetBindings[i].field_name
                d == TargetBindings[i].defaults_field
                p == PartialName(InnerOf(i))
            IN /\ Has(DocDefs(Doc), p)
               /\ ~Has(DocDefs(Doc)[p], "required")
               /\ Has(Doc["properties"], d)
               /\ Doc["properties"][d]["anyOf"] = << RefTo("#/$defs/" \o p), NullType >>
               /\ ~DocRequires(Doc, d)
               /\ DocRequires(Doc, f) <=> DeclaredRequired(TargetCls, f)
               /\ Has(Doc["properties"], f)
               /\ Has(Doc["properties"][f], "items")
               /\ Has(Doc["properties"][f]["items"], "anyOf")
               /\ Doc["properties"][f]["items"]["anyOf"]
                    = << RefTo("#/$defs/" \o p), RefTo("#/$defs/" \o InnerOf(i)) >>

RECURSIVE PropRefs(_)
PropRefs(prop) ==
    (IF Has(prop, "$ref") THEN {prop["$ref"]} ELSE {})
    \cup (IF Has(prop, "anyOf")
          THEN UNION {PropRefs(prop["anyOf"][i]) : i \in 1..Len(prop["anyOf"])}
          ELSE {})
    \cup (IF Has(prop, "items") THEN PropRefs(prop["items"]) ELSE {})

ObjectRefs(obj) ==
    IF Has(obj, "properties")
    THEN UNION {PropRefs(obj["properties"][k]) : k \in DOMAIN obj["properties"]}
    ELSE {}

DocRefs(doc) ==
    ObjectRefs(doc)
    \cup UNION {ObjectRefs(DocDefs(doc)[t])
                \cup UNION {ObjectRefs(DocDefs(DocDefs(doc)[t])[u]) :
                            u \in DOMAIN DocDefs(DocDefs(doc)[t])} :
                t \in DOMAIN DocDefs(doc)}

\* ref is what ref_template makes of the name of a definition doc holds
Resolves(doc, ref, ref_template) ==
    \E t \in DOMAIN DocDefs(doc) : ref = Format(ref_template, t)

RefClosed(doc, ref_template) ==
    \A ref \in DocRefs(doc) : Resolves(doc, ref, ref_template)

\* C8: when every $ref of the baseline resolves, every $ref of the patched
\* document resolves to a definition the document holds, for every
\* ref_template.
C8_RefClosed ==
    Called =>
        (RefClosed(BaseModelJsonSchema(TargetCls, TargetTemplate), TargetTemplate)
         => RefClosed(Doc, TargetTemplate))

\* C9 as claimed: the partial definition is the element type's full schema
\* without "required": every other key is there with the same value.
C9_PartialIsFullMinusRequired ==
    Called =>
        \A i \in SchemaBindingIdx :
            LET full == InnerModelJsonSchema(InnerOf(i), TargetTemplate)
                partial == DocDefs(Doc)[PartialName(InnerOf(i))]
            IN /\ ~Has(partial, "required")
               /\ DOMAIN partial = DOMAIN full \ {"required"}
               /\ \A k \in DOMAIN full \ {"required"} : partial[k] = full[k]

\* C9 amended: the partial definition is the full schema without "required"
\* and with "title" and "description" replaced; every other key, the
\* properties among them, has the same value.
C9_PartialIsFullRetitled ==
    Called =>
        \A i \in SchemaBindingIdx :
            LET full == InnerModelJsonSchema(InnerOf(i), TargetTemplate)
                partial == DocDefs(Doc)[PartialName(InnerOf(i))]
            IN /\ ~Has(partial, "required")
               /\ DOMAIN partial
                    = (DOMAIN full \ {"required"}) \cup {"title", "description"}
               /\ partial["title"] = PartialName(InnerOf(i))
               /\ partial["properties"] = full["properties"]
               /\ \A k \in DOMAIN full \ {"required", "title", "description"} :
                     partial[k] = full[k]

\* a document with the partial of an element type whose full schema has a
\* required list, a description of its own and definitions of its own
C9_Witness ==
    /\ Called
    /\ \E i \in SchemaBindingIdx :
          /\ Has(InnerModelJsonSchema(InnerOf(i), TargetTemplate), "required")
          /\ Has(InnerModelJsonSchema(InnerOf(i), TargetTemplate), "$defs")
          /\ Has(DocDefs(Doc), PartialName(InnerOf(i)))
    /\ \E i \in SchemaBindingIdx :
          Has(InnerModelJsonSchema(InnerOf(i), TargetTemplate), "description")

\* C10: at any inheritance depth the document returned is the engine's
\* baseline schema of the model type called, patched once for each of its
\* bindings.
C10_PatchedOnceOnOwnBaseline ==
    Called =>
        Doc = PatchBindings(BaseModelJsonSchema(TargetCls, TargetTemplate), TargetCls,
                            TargetBindings, TargetTemplate)

====
